---- MODULE Spec2Model ----
(***************************************************************************)
(* Model of chill_torch: the Lightning wrappers RegularClassificationModel *)
(* and LinearRegressionModel (chill_lightning/basic_models.py) and the     *)
(* orchestrator ChillModel (chill_model.py).                               *)
(*                                                                         *)
(* Tensors are records [shape, data] with row-major data.  The output of   *)
(* the user's feature extractor is an input of each step.  Calls into      *)
(* torch / torchmetrics / lightning are modelled by the documented         *)
(* behaviour of the call where it is fixed (shape rules, missing module    *)
(* attributes) and by a nondeterministic outcome where it is not.          *)
(***************************************************************************)
EXTENDS Integers, Sequences, FiniteSets, TLC

VARIABLES self, train_accuracy, valid_accuracy, test_accuracy, executed,
          last, optimizers,
          chill, trainers, call, history

wvars == <<self, train_accuracy, valid_accuracy, test_accuracy, executed,
           last, optimizers>>
ovars == <<chill, trainers, call, history>>
vars  == <<self, train_accuracy, valid_accuracy, test_accuracy, executed,
           last, optimizers, chill, trainers, call, history>>

(***************************************************************************)
(* Bounds of the exploration.                                              *)
(***************************************************************************)
MaxBatch == 2      \* rows of a batch
MaxWidth == 3      \* columns produced by the feature extractor
MaxElems == 6      \* elements of a batch
MaxSteps == 2      \* completed step operations per wrapper
MaxCalls == 4      \* orchestrator calls

LogitVals == {-1, 0, 1}
TaskTags == {"binary", "multiclass", "other"}   \* "other": any unrecognized tag, e.g. None
ClassCounts == 2..MaxWidth
DefaultLR == 1                                   \* lr: float = 1e-3, in units of 1e-3
LearningRates == {DefaultLR, 5}

(***************************************************************************)
(* Tensors                                                                 *)
(***************************************************************************)
RECURSIVE Numel(_)
Numel(shape) == IF shape = <<>> THEN 1 ELSE Head(shape) * Numel(Tail(shape))

NoTensor == [shape |-> <<0>>, data |-> <<>>]

NotOne(d) == d # 1

\* Tensor.squeeze(): every dimension of size 1 is removed.
squeeze(t) == [shape |-> SelectSeq(t.shape, NotOne), data |-> t.data]

\* torch.round(torch.sigmoid(v)): sigmoid(v) > 1/2 iff v > 0, and
\* sigmoid(0) = 1/2 rounds to the even neighbour 0.
round_sigmoid(t) ==
    [shape |-> t.shape,
     data  |-> [i \in 1..Len(t.data) |-> IF t.data[i] > 0 THEN 1 ELSE 0]]

\* Index (0-based) of the first maximal value of row r of an n x c tensor.
RowArgmax(t, r) ==
    LET c == t.shape[2]
        at(j) == t.data[(r - 1) * c + j + 1]
    IN  CHOOSE j \in 0..(c - 1) :
            /\ \A k \in 0..(c - 1) : at(k) <= at(j)
            /\ \A k \in 0..(j - 1) : at(k) < at(j)

argmax_one_based(t) ==
    [shape |-> <<t.shape[1]>>,
     data  |-> [r \in 1..t.shape[1] |-> RowArgmax(t, r) + 1]]

\* torch.argmax(t, dim = 1) of a 2-d tensor.
argmax(t) ==
    [shape |-> <<t.shape[1]>>,
     data  |-> [r \in 1..t.shape[1] |-> RowArgmax(t, r)]]

\* Shapes that torch broadcasting accepts (trailing dimensions aligned).
RECURSIVE Broadcastable(_, _)
Broadcastable(s1, s2) ==
    IF s1 = <<>> \/ s2 = <<>> THEN TRUE
    ELSE LET a == s1[Len(s1)]
             b == s2[Len(s2)]
         IN  /\ (a = b \/ a = 1 \/ b = 1)
             /\ Broadcastable(SubSeq(s1, 1, Len(s1) - 1), SubSeq(s2, 1, Len(s2) - 1))

Shapes == {s \in (1..MaxBatch) \X (1..MaxWidth) : s[1] * s[2] <= MaxElems}

\* Every output the feature extractor can produce for a batch.
AllBatches ==
    UNION {{[shape |-> s, data |-> d] : d \in [1..(s[1] * s[2]) -> LogitVals]} : s \in Shapes}

\* One output per shape, used where the step sequence is explored.
RampBatches ==
    {[shape |-> s, data |-> [i \in 1..(s[1] * s[2]) |-> ((i * i + s[2]) % 3) - 1]] : s \in Shapes}

\* The label tensor of a batch has one label per row.
LabelShape(x) == <<x.shape[1]>>

(***************************************************************************)
(* Wrapper state                                                           *)
(***************************************************************************)
\* `self` holds the attributes the constructor sets (loss_arg remembers the
\* loss_fn argument); the accumulators count their updates; `executed`
\* counts the step operations that returned; `last` describes the latest
\* step operation and `optimizers` the result of configure_optimizers.
NoSelf ==
    [state |-> "none", kind |-> "none", task |-> "none", number_of_classes |-> 0,
     loss_fn |-> "unset", optim |-> "None", forward_override |-> FALSE, lr |-> 0,
     loss_arg |-> "None"]

NoLast ==
    [op |-> "none", fwd |-> "none", x |-> NoTensor, y_preds |-> NoTensor,
     bound |-> FALSE, loss_cls |-> "none", loss_computed |-> FALSE,
     error |-> "none", ret |-> "none", logged |-> {}]

NoOptimizers == [called |-> FALSE, error |-> "none", optims |-> <<>>, schedulers |-> <<>>]

Splits == {"train", "valid", "test"}

WrapperInit ==
    /\ self = NoSelf
    /\ train_accuracy = 0
    /\ valid_accuracy = 0
    /\ test_accuracy = 0
    /\ executed = [s \in Splits \cup {"predict"} |-> 0]
    /\ last = NoLast
    /\ optimizers = NoOptimizers

(***************************************************************************)
(* External library calls                                                  *)
(***************************************************************************)
\* Names the modules torch.nn and torch.optim define, among those the
\* wrappers look up.
TorchNN == {"BCEWithLogitsLoss", "CrossEntropyLoss", "MSELoss", "Sequential", "Module"}
TorchOptim == {"Adam", "SGD"}

\* torchmetrics.Accuracy(task, num_classes): a recognized task always builds
\* an accumulator; what happens for any other value is the library's choice
\* (libraryOk), not the wrapper's.
AccuracyBuilds(task, libraryOk) == task \in {"binary", "multiclass"} \/ libraryOk

\* loss_fn(y_logits, y): the shape rules of the torch.nn losses; a
\* caller-supplied loss decides for itself (callerOk).
LossAccepts(cls, input, target, callerOk) ==
    CASE cls = "BCEWithLogitsLoss" -> input = target
      [] cls = "CrossEntropyLoss"  -> Len(input) = 2 /\ target = <<input[1]>>
      [] cls = "MSELoss"           -> Broadcastable(input, target)
      [] OTHER                     -> callerOk

\* accumulator(y_preds, y): accepted when the predictions have the labels'
\* shape and lie within the accumulator's classes; otherwise the library
\* decides (libraryOk).
AccuracyAccepts(y_preds, target, libraryOk) ==
    \/ /\ y_preds.shape = target
       /\ \A i \in 1..Len(y_preds.data) : y_preds.data[i] < self.number_of_classes
    \/ libraryOk

(***************************************************************************)
(* RegularClassificationModel                                              *)
(***************************************************************************)
ClassificationLossSwapped(loss_fn, task) ==
    IF loss_fn # "None" THEN loss_fn
    ELSE IF task = "binary" THEN "CrossEntropyLoss"
    ELSE IF task = "multiclass" THEN "BCEWithLogitsLoss"
    ELSE "unset"

\* The loss class stored by the constructor; "unset" when no branch assigns.
ClassificationLoss(loss_fn, task) ==
    IF loss_fn # "None" THEN loss_fn
    ELSE IF task = "binary" THEN "BCEWithLogitsLoss"
    ELSE IF task = "multiclass" THEN "CrossEntropyLoss"
    ELSE "unset"

RegularClassificationModel_init(task, number_of_classes, optim, loss_fn, forward_override, lr, libraryOk) ==
    /\ self.state = "none"
    /\ self' = IF AccuracyBuilds(task, libraryOk)
               THEN [state |-> "built", kind |-> "classification", task |-> task,
                     number_of_classes |-> number_of_classes,
                     loss_fn |-> ClassificationLoss(loss_fn, task),
                     optim |-> optim, forward_override |-> forward_override, lr |-> lr,
                     loss_arg |-> loss_fn]
               ELSE [NoSelf EXCEPT !.state = "failed", !.kind = "classification"]
    /\ UNCHANGED <<train_accuracy, valid_accuracy, test_accuracy, executed, last,
                   optimizers, ovars>>

\* forward(): which callable produces the logits.
forward == IF self.forward_override THEN "torch_forward" ELSE "layers"

DecodeThreshold(task, y_logits) ==
    [raised |-> FALSE, bound |-> TRUE, y_preds |-> round_sigmoid(y_logits)]

\* The task-conditional decoding of the step operations.  Neither branch
\* taken leaves y_preds unbound; argmax over dim 1 needs two dimensions.
Decode(task, y_logits) ==
    IF task = "binary"
    THEN [raised |-> FALSE, bound |-> TRUE, y_preds |-> round_sigmoid(y_logits)]
    ELSE IF task = "multiclass"
    THEN IF Len(y_logits.shape) >= 2
         THEN [raised |-> FALSE, bound |-> TRUE, y_preds |-> argmax(y_logits)]
         ELSE [raised |-> TRUE, bound |-> FALSE, y_preds |-> NoTensor]
    ELSE [raised |-> FALSE, bound |-> FALSE, y_preds |-> NoTensor]

\* The first statement of a train/validate/test step that raises, in the
\* order the step executes them: decode, self.loss_fn(), loss_fn(y_logits, y),
\* accumulator(y_preds, y).
StepError(d, y_logits, target, callerOk, libraryOk) ==
    IF d.raised THEN "IndexError"
    ELSE IF self.loss_fn = "unset" THEN "AttributeError"
    ELSE IF ~LossAccepts(self.loss_fn, y_logits.shape, target, callerOk) THEN "LossError"
    ELSE IF ~d.bound THEN "UnboundLocalError"
    ELSE IF ~AccuracyAccepts(d.y_preds, target, libraryOk) THEN "AccuracyError"
    ELSE "none"

StepRecord(op, x, d, err, ret, logged) ==
    [op |-> op, fwd |-> forward, x |-> x, y_preds |-> d.y_preds, bound |-> d.bound,
     loss_cls |-> IF err \in {"IndexError", "AttributeError"} THEN "none" ELSE self.loss_fn,
     loss_computed |-> err \notin {"IndexError", "AttributeError", "LossError"},
     error |-> err,
     ret |-> IF err = "none" THEN ret ELSE "raise",
     logged |-> IF err = "none" THEN logged ELSE {}]

Bump(n, err) == IF err = "none" THEN n + 1 ELSE n

Count(op, err) == IF err = "none" THEN [executed EXCEPT ![op] = @ + 1] ELSE executed

RegularClassificationModel_training_step(x, callerOk, libraryOk) ==
    /\ self.state = "built" /\ self.kind = "classification"
    /\ LET y_logits == squeeze(x)
           d   == Decode(self.task, y_logits)
           err == StepError(d, y_logits, LabelShape(x), callerOk, libraryOk)
       IN  /\ train_accuracy' = Bump(train_accuracy, err)
           /\ last' = StepRecord("train", x, d, err, "loss",
                                 {<<"train_acc_step", "train_accuracy">>})
           /\ executed' = Count("train", err)
    /\ UNCHANGED <<self, valid_accuracy, test_accuracy, optimizers, ovars>>

RegularClassificationModel_training_epoch_end ==
    /\ self.state = "built" /\ self.kind = "classification"
    /\ last' = [NoLast EXCEPT !.op = "train_epoch_end", !.ret = "None",
                              !.logged = {<<"train_acc_epoch", "train_accuracy">>}]
    /\ UNCHANGED <<self, train_accuracy, valid_accuracy, test_accuracy, executed,
                   optimizers, ovars>>

RegularClassificationModel_validation_step(x, callerOk, libraryOk) ==
    /\ self.state = "built" /\ self.kind = "classification"
    /\ LET y_logits == squeeze(x)
           d   == Decode(self.task, y_logits)
           err == StepError(d, y_logits, LabelShape(x), callerOk, libraryOk)
       IN  /\ valid_accuracy' = Bump(valid_accuracy, err)
           /\ last' = StepRecord("valid", x, d, err, "None",
                                 {<<"val_acc_step", "valid_accuracy">>, <<"val_loss", "loss">>})
           /\ executed' = Count("valid", err)
    /\ UNCHANGED <<self, train_accuracy, test_accuracy, optimizers, ovars>>

RegularClassificationModel_test_step_valid(x, callerOk, libraryOk) ==
    /\ self.state = "built" /\ self.kind = "classification"
    /\ LET y_logits == squeeze(x)
           d   == Decode(self.task, y_logits)
           err == StepError(d, y_logits, LabelShape(x), callerOk, libraryOk)
       IN  /\ valid_accuracy' = Bump(valid_accuracy, err)
           /\ last' = StepRecord("test", x, d, err, "None",
                                 {<<"test_acc_step", "test_accuracy">>, <<"val_loss", "loss">>})
           /\ executed' = Count("test", err)
    /\ UNCHANGED <<self, train_accuracy, test_accuracy, optimizers, ovars>>

RegularClassificationModel_test_step(x, callerOk, libraryOk) ==
    /\ self.state = "built" /\ self.kind = "classification"
    /\ LET y_logits == squeeze(x)
           d   == Decode(self.task, y_logits)
           err == StepError(d, y_logits, LabelShape(x), callerOk, libraryOk)
       IN  /\ test_accuracy' = Bump(test_accuracy, err)
           /\ last' = StepRecord("test", x, d, err, "None",
                                 {<<"test_acc_step", "test_accuracy">>, <<"val_loss", "loss">>})
           /\ executed' = Count("test", err)
    /\ UNCHANGED <<self, train_accuracy, valid_accuracy, optimizers, ovars>>

RegularClassificationModel_predict_step(x) ==
    /\ self.state = "built" /\ self.kind = "classification"
    /\ LET y_logits == squeeze(x)
           d   == Decode(self.task, y_logits)
           err == IF d.raised THEN "IndexError"
                  ELSE IF ~d.bound THEN "UnboundLocalError" ELSE "none"
       IN  /\ last' = [StepRecord("predict", x, d, err, "y_preds", {})
                          EXCEPT !.loss_cls = "none", !.loss_computed = FALSE]
           /\ executed' = Count("predict", err)
    /\ UNCHANGED <<self, train_accuracy, valid_accuracy, test_accuracy, optimizers, ovars>>

\* torch.optim.lr_scheduler.StepLR(optim, step_size = 1)
StepLR(optim) == [cls |-> "StepLR", step_size |-> 1, optimizer |-> optim]

\* configure_optimizers of both wrappers: `namespace` is the module the
\* default optimizer `name` is looked up in.
ConfigureResult(namespace, name) ==
    IF self.optim = "None" /\ name \notin namespace
    THEN [called |-> TRUE, error |-> "AttributeError", optims |-> <<>>, schedulers |-> <<>>]
    ELSE LET optim == [cls |-> IF self.optim = "None" THEN name ELSE self.optim,
                       params |-> "self.parameters()", lr |-> self.lr]
         IN  [called |-> TRUE, error |-> "none", optims |-> <<optim>>,
              schedulers |-> <<StepLR(optim)>>]

RegularClassificationModel_configure_optimizers ==
    /\ self.state = "built" /\ self.kind = "classification"
    /\ optimizers' = ConfigureResult(TorchNN, "Adam")
    /\ UNCHANGED <<self, train_accuracy, valid_accuracy, test_accuracy, executed, last, ovars>>

(***************************************************************************)
(* LinearRegressionModel                                                   *)
(***************************************************************************)
RegressionLoss(loss_fn) == IF loss_fn # "None" THEN loss_fn ELSE "MSELoss"

LinearRegressionModel_init(forward_override, optim, loss_fn, lr) ==
    /\ self.state = "none"
    /\ self' = [state |-> "built", kind |-> "regression", task |-> "regression",
                number_of_classes |-> 0, loss_fn |-> RegressionLoss(loss_fn),
                optim |-> optim, forward_override |-> forward_override, lr |-> lr,
                loss_arg |-> loss_fn]
    /\ UNCHANGED <<train_accuracy, valid_accuracy, test_accuracy, executed, last,
                   optimizers, ovars>>

\* The body shared by the regression train/validate/test steps:
\* y_preds = forward(x).squeeze(); loss_fn = self.loss_fn(); loss_fn(y_preds, y).
RegressionStep(op, x, callerOk, ret, logged) ==
    LET y_preds == squeeze(x)
        err == IF LossAccepts(self.loss_fn, y_preds.shape, LabelShape(x), callerOk)
               THEN "none" ELSE "LossError"
    IN  /\ last' = [op |-> op, fwd |-> forward, x |-> x, y_preds |-> y_preds, bound |-> TRUE,
                    loss_cls |-> self.loss_fn, loss_computed |-> err = "none",
                    error |-> err,
                    ret |-> IF err = "none" THEN ret ELSE "raise",
                    logged |-> IF err = "none" THEN logged ELSE {}]
        /\ executed' = Count(op, err)

LinearRegressionModel_training_step(x, callerOk) ==
    /\ self.state = "built" /\ self.kind = "regression"
    /\ RegressionStep("train", x, callerOk, "loss", {})
    /\ UNCHANGED <<self, train_accuracy, valid_accuracy, test_accuracy, optimizers, ovars>>

LinearRegressionModel_validation_step(x, callerOk) ==
    /\ self.state = "built" /\ self.kind = "regression"
    /\ RegressionStep("valid", x, callerOk, "None", {<<"val_loss", "loss">>})
    /\ UNCHANGED <<self, train_accuracy, valid_accuracy, test_accuracy, optimizers, ovars>>

LinearRegressionModel_test_step(x, callerOk) ==
    /\ self.state = "built" /\ self.kind = "regression"
    /\ RegressionStep("test", x, callerOk, "None", {<<"test_loss", "loss">>})
    /\ UNCHANGED <<self, train_accuracy, valid_accuracy, test_accuracy, optimizers, ovars>>

LinearRegressionModel_predict_step(x) ==
    /\ self.state = "built" /\ self.kind = "regression"
    /\ last' = [op |-> "predict", fwd |-> forward, x |-> x, y_preds |-> x, bound |-> TRUE,
                loss_cls |-> "none", loss_computed |-> FALSE, error |-> "none",
                ret |-> "y_preds", logged |-> {}]
    /\ executed' = Count("predict", "none")
    /\ UNCHANGED <<self, train_accuracy, valid_accuracy, test_accuracy, optimizers, ovars>>

LinearRegressionModel_configure_optimizers ==
    /\ self.state = "built" /\ self.kind = "regression"
    /\ optimizers' = ConfigureResult(TorchOptim, "SGD")
    /\ UNCHANGED <<self, train_accuracy, valid_accuracy, test_accuracy, executed, last, ovars>>

(***************************************************************************)
(* ChillModel                                                              *)
(***************************************************************************)
\* `trainers` is the heap of pl.Trainer objects, a handle being an index;
\* each records the model it was last given.  `call` is the latest
\* delegation, `history` the orchestrator calls made so far; a failed
\* construction leaves the rejected problem type in chill.error.
ProblemTypes == {"lin-reg", "img-class", "reg-class"}
ProblemTypeInputs == ProblemTypes \cup {"unsupported-tag"}
DataLoaders == {"loader_a", "loader_b"}

NoChill ==
    [state |-> "none", problem_type |-> "none", model |-> "none",
     train_dataloader |-> "none", test_dataloader |-> "none", trainer |-> 0,
     error |-> "none"]

NoCall ==
    [op |-> "none", trainer |-> 0, model |-> "none", dataloaders |-> "none",
     given |-> "none", attached |-> FALSE, ret |-> "none"]

OrchInit ==
    /\ chill = NoChill
    /\ trainers = <<>>
    /\ call = NoCall
    /\ history = <<>>

\* helper_functions.select_mode: the mode of a recognized problem type, a
\* descriptive error for anything else.
select_mode(problem_type) ==
    IF problem_type \in ProblemTypes
    THEN [raised |-> FALSE, mode |-> problem_type]
    ELSE [raised |-> TRUE, mode |-> "none"]

\* helper_functions.select_model: the wrapper matching the resolved mode.
select_model(problem_type) ==
    CASE problem_type = "lin-reg"   -> "LinearRegressionModel"
      [] problem_type = "reg-class" -> "RegularClassificationModel"
      [] problem_type = "img-class" -> "ImageClassificationModel"

\* pl.Trainer(): a new trainer with no model attached.
NewTrainer == [model |-> "none"]

ChillModel_init_trainer_first(train_dataloader, test_dataloader, problem_type) ==
    /\ chill.state = "none"
    /\ trainers' = Append(trainers, NewTrainer)
    /\ LET m == select_mode(problem_type)
       IN  chill' = IF m.raised
                    THEN [NoChill EXCEPT !.state = "failed", !.error = problem_type]
                    ELSE [state |-> "built", problem_type |-> m.mode,
                          model |-> select_model(m.mode),
                          train_dataloader |-> train_dataloader,
                          test_dataloader |-> test_dataloader,
                          trainer |-> Len(trainers) + 1, error |-> "none"]
    /\ UNCHANGED <<call, history, wvars>>

\* __init__: the data sources are stored, the problem type is resolved, the
\* wrapper is selected and only then the trainer is created; an exception
\* leaves no object behind.
ChillModel_init(train_dataloader, test_dataloader, problem_type) ==
    /\ chill.state = "none"
    /\ LET m == select_mode(problem_type)
       IN  IF m.raised
           THEN /\ chill' = [NoChill EXCEPT !.state = "failed", !.error = problem_type]
                /\ trainers' = trainers
           ELSE /\ chill' = [state |-> "built", problem_type |-> m.mode,
                             model |-> select_model(m.mode),
                             train_dataloader |-> train_dataloader,
                             test_dataloader |-> test_dataloader,
                             trainer |-> Len(trainers) + 1, error |-> "none"]
                /\ trainers' = Append(trainers, NewTrainer)
    /\ UNCHANGED <<call, history, wvars>>

\* What a trainer hands back for a run over `dataloaders`.
TrainerResult(handle, dataloaders) == [by |-> handle, over |-> dataloaders]

Attached(handle) == trainers[handle].model # "none"

\* self.trainer.fit(model = self.model, train_dataloaders = self.train_dataloader)
ChillModel_train ==
    /\ chill.state = "built"
    /\ call' = [op |-> "train", trainer |-> chill.trainer, model |-> chill.model,
                dataloaders |-> chill.train_dataloader, given |-> "none",
                attached |-> Attached(chill.trainer), ret |-> "None"]
    /\ trainers' = [trainers EXCEPT ![chill.trainer].model = chill.model]
    /\ history' = Append(history, "train")
    /\ UNCHANGED <<chill, wvars>>

ChillModel_test_with_model ==
    /\ chill.state = "built"
    /\ call' = [op |-> "test", trainer |-> chill.trainer, model |-> "none",
                dataloaders |-> chill.test_dataloader, given |-> "none",
                attached |-> Attached(chill.trainer), ret |-> "None"]
    /\ trainers' = [trainers EXCEPT ![chill.trainer].model = chill.model]
    /\ history' = Append(history, "test")
    /\ UNCHANGED <<chill, wvars>>

\* self.trainer.test(dataloaders = self.test_dataloader)
ChillModel_test ==
    /\ chill.state = "built"
    /\ call' = [op |-> "test", trainer |-> chill.trainer, model |-> "none",
                dataloaders |-> chill.test_dataloader, given |-> "none",
                attached |-> Attached(chill.trainer), ret |-> "None"]
    /\ history' = Append(history, "test")
    /\ UNCHANGED <<chill, trainers, wvars>>

ChillModel_validate_held ==
    /\ chill.state = "built"
    /\ call' = [op |-> "validate", trainer |-> chill.trainer, model |-> chill.model,
                dataloaders |-> "none", given |-> "none",
                attached |-> Attached(chill.trainer), ret |-> "None"]
    /\ trainers' = [trainers EXCEPT ![chill.trainer].model = chill.model]
    /\ history' = Append(history, "validate")
    /\ UNCHANGED <<chill, wvars>>

\* trainer = pl.Trainer(); trainer.validate(self.model)
ChillModel_validate ==
    /\ chill.state = "built"
    /\ LET trainer == Len(trainers) + 1
       IN  /\ call' = [op |-> "validate", trainer |-> trainer, model |-> chill.model,
                       dataloaders |-> "none", given |-> "none",
                       attached |-> FALSE, ret |-> "None"]
           /\ trainers' = Append(trainers, [NewTrainer EXCEPT !.model = chill.model])
    /\ history' = Append(history, "validate")
    /\ UNCHANGED <<chill, wvars>>

\* preds = self.trainer.predict(dataloaders = predict_dataloader); return preds
ChillModel_predict(predict_dataloader) ==
    /\ chill.state = "built"
    /\ call' = [op |-> "predict", trainer |-> chill.trainer, model |-> "none",
                dataloaders |-> predict_dataloader, given |-> predict_dataloader,
                attached |-> Attached(chill.trainer),
                ret |-> TrainerResult(chill.trainer, predict_dataloader)]
    /\ history' = Append(history, "predict")
    /\ UNCHANGED <<chill, trainers, wvars>>

NextOrch ==
    \/ \E tr \in DataLoaders, te \in DataLoaders, p \in ProblemTypeInputs :
          ChillModel_init(tr, te, p)
    \/ Len(history) < MaxCalls /\ ChillModel_train
    \/ Len(history) < MaxCalls /\ ChillModel_test
    \/ Len(history) < MaxCalls /\ ChillModel_validate
    \/ \E d \in DataLoaders : Len(history) < MaxCalls /\ ChillModel_predict(d)

(***************************************************************************)
(* Specifications of the wrappers                                          *)
(***************************************************************************)
Completed == executed["train"] + executed["valid"] + executed["test"] + executed["predict"]

Budget == Completed < MaxSteps

Fresh == last.op = "none"

Construct(rates, optims) ==
    \/ \E task \in TaskTags, n \in ClassCounts, optim \in optims,
          loss_fn \in {"None", "custom_loss"}, fo \in BOOLEAN, lr \in rates,
          libraryOk \in BOOLEAN :
          RegularClassificationModel_init(task, n, optim, loss_fn, fo, lr, libraryOk)
    \/ \E optim \in optims, loss_fn \in {"None", "custom_loss"},
          fo \in BOOLEAN, lr \in rates :
          LinearRegressionModel_init(fo, optim, loss_fn, lr)

\* The outcomes left to the caller's loss and to the metrics library: only a
\* caller-supplied loss can refuse on its own account.
CallerChoices == IF self.loss_fn = "custom_loss" THEN BOOLEAN ELSE {TRUE}

\* The metrics library has a choice only where AccuracyAccepts leaves one.
LibraryChoices(x) ==
    IF AccuracyAccepts(Decode(self.task, squeeze(x)).y_preds, LabelShape(x), FALSE)
    THEN {TRUE} ELSE BOOLEAN

Steps(batches) ==
    \/ \E x \in batches : \E callerOk \in CallerChoices, libraryOk \in LibraryChoices(x) :
          RegularClassificationModel_training_step(x, callerOk, libraryOk)
    \/ \E x \in batches : \E callerOk \in CallerChoices, libraryOk \in LibraryChoices(x) :
          RegularClassificationModel_validation_step(x, callerOk, libraryOk)
    \/ \E x \in batches : \E callerOk \in CallerChoices, libraryOk \in LibraryChoices(x) :
          RegularClassificationModel_test_step(x, callerOk, libraryOk)
    \/ \E x \in batches : RegularClassificationModel_predict_step(x)
    \/ \E x \in batches, callerOk \in CallerChoices :
          LinearRegressionModel_training_step(x, callerOk)
    \/ \E x \in batches, callerOk \in CallerChoices :
          LinearRegressionModel_validation_step(x, callerOk)
    \/ \E x \in batches, callerOk \in CallerChoices :
          LinearRegressionModel_test_step(x, callerOk)
    \/ \E x \in batches : LinearRegressionModel_predict_step(x)

Init == WrapperInit /\ OrchInit

Optims == {"None", "custom_optim"}

\* Sequences of step operations on one wrapper.
Next ==
    \/ Construct({DefaultLR}, {"None"})
    \/ Budget /\ Steps(RampBatches)
    \/ Budget /\ RegularClassificationModel_training_epoch_end

Spec == Init /\ [][Next]_vars

\* One step operation applied to every feature-extractor output, before or
\* after the optimizers are configured.
NextDecode ==
    \/ Construct({DefaultLR}, {"None"})
    \/ Fresh /\ Steps(AllBatches)
    \/ RegularClassificationModel_configure_optimizers
    \/ LinearRegressionModel_configure_optimizers

SpecDecode == Init /\ [][NextDecode]_vars

\* Optimizer configuration of every wrapper.
NextOptim ==
    \/ Construct(LearningRates, Optims)
    \/ RegularClassificationModel_configure_optimizers
    \/ LinearRegressionModel_configure_optimizers

SpecOptim == Init /\ [][NextOptim]_vars

\* Sequences of orchestrator calls.
SpecOrch == Init /\ [][NextOrch]_vars

(***************************************************************************)
(* Properties                                                              *)
(***************************************************************************)
StepOps == Splits \cup {"predict"}

Recognized == {"binary", "multiclass"}

IsClassifier == self.state = "built" /\ self.kind = "classification"

Returned(op) == last.op = op /\ last.error = "none"

\* C1: for every task tag outside {binary, multiclass} the classification
\* wrapper fails: no wrapper instance exists without a loss function (the
\* failure is at construction when no loss function is supplied), and no
\* train, validate, test or predict step returns for such a tag.
C1_UnrecognizedTagFailsFast ==
    IsClassifier =>
        /\ self.loss_fn # "unset"
        /\ (self.task \notin Recognized /\ last.op \in StepOps) => last.error # "none"

\* C2: constructing the orchestrator with an unrecognized problem type fails
\* naming the rejected type, leaves no wrapper and no trainer handle
\* behind, and no train/test/validate/predict call runs on an orchestrator
\* without a wrapper.
C2_UnrecognizedTypeFails ==
    /\ chill.state = "failed" =>
          /\ chill.error \notin ProblemTypes /\ chill.error # "none"
          /\ chill.model = "none" /\ chill.trainer = 0
          /\ trainers = <<>> /\ call = NoCall /\ history = <<>>
    /\ chill.state = "built" =>
          /\ chill.problem_type \in ProblemTypes /\ chill.error = "none"
          /\ chill.model \in {"LinearRegressionModel", "RegularClassificationModel",
                              "ImageClassificationModel"}
    /\ call.op # "none" => chill.state = "built" /\ chill.model # "none"

C2_Witness == chill.state = "failed" /\ chill.error = "unsupported-tag"

\* C3: on a classification wrapper with a recognized tag, each accumulator
\* has been updated exactly as often as a step of its own split has
\* returned; predict steps update none.
C3_UpdatesMatchSteps ==
    (IsClassifier /\ self.task \in Recognized) =>
        /\ train_accuracy = executed["train"]
        /\ valid_accuracy = executed["valid"]
        /\ test_accuracy = executed["test"]

C3_Witness ==
    /\ IsClassifier /\ self.task = "binary"
    /\ executed["train"] = 1 /\ executed["predict"] = 1
    /\ train_accuracy = 1 /\ valid_accuracy = 0 /\ test_accuracy = 0

\* C4: configure_optimizers succeeds for every wrapper and returns exactly
\* one optimizer and one StepLR scheduler of step size 1 on that optimizer;
\* the optimizer is Adam (classification) or SGD (regression) by default and
\* the caller's constructor otherwise, built with the configured lr.
C4_ConfigureSucceeds ==
    optimizers.called =>
        /\ optimizers.error = "none"
        /\ Len(optimizers.optims) = 1 /\ Len(optimizers.schedulers) = 1
        /\ optimizers.schedulers[1].cls = "StepLR"
        /\ optimizers.schedulers[1].step_size = 1
        /\ optimizers.schedulers[1].optimizer = optimizers.optims[1]
        /\ optimizers.optims[1].lr = self.lr
        /\ optimizers.optims[1].cls =
              IF self.optim # "None" THEN self.optim
              ELSE IF self.kind = "classification" THEN "Adam" ELSE "SGD"

\* C5: the loss function of a wrapper, and the one every train, validate
\* and test step instantiates, is the caller's when one was given, and
\* otherwise BCEWithLogitsLoss for binary, CrossEntropyLoss for multiclass
\* and MSELoss for the regression wrapper.
C5_LossSelection ==
    (self.state = "built" /\ self.task \in Recognized \cup {"regression"}) =>
        LET want == IF self.loss_arg # "None" THEN self.loss_arg
                    ELSE IF self.task = "binary" THEN "BCEWithLogitsLoss"
                    ELSE IF self.task = "multiclass" THEN "CrossEntropyLoss"
                    ELSE "MSELoss"
        IN  /\ self.loss_fn = want
            /\ (last.op \in Splits /\ last.error # "IndexError") => last.loss_cls = want

C5_Witness ==
    /\ Returned("test") /\ self.task = "multiclass" /\ self.loss_arg = "None"
    /\ last.loss_cls = "CrossEntropyLoss" /\ executed["train"] = 1

Width == last.x.shape[2]

Rows == last.x.shape[1]

MulticlassDecoded == IsClassifier /\ self.task = "multiclass" /\ last.op \in StepOps /\ last.bound

\* C6 (as claimed): every multiclass prediction is a class index below the
\* number_of_classes given at construction.
C6_WithinConfiguredClasses ==
    MulticlassDecoded =>
        \A i \in 1..Len(last.y_preds.data) :
            last.y_preds.data[i] \in 0..(self.number_of_classes - 1)

\* C6 (amended): every multiclass prediction is a class index below the
\* width of the class dimension of the logits, one index per row.
C6_WithinLogitWidth ==
    MulticlassDecoded =>
        /\ Len(last.y_preds.data) = Rows
        /\ \A i \in 1..Len(last.y_preds.data) : last.y_preds.data[i] \in 0..(Width - 1)

C6_Witness ==
    /\ MulticlassDecoded /\ Returned("predict")
    /\ Width > self.number_of_classes
    /\ \E i \in 1..Rows : last.y_preds.data[i] = Width - 1

BinaryRule ==
    /\ last.y_preds.shape = SelectSeq(last.x.shape, NotOne)
    /\ Len(last.y_preds.data) = Len(last.x.data)
    /\ \A i \in 1..Len(last.x.data) :
          /\ last.y_preds.data[i] \in {0, 1}
          /\ last.y_preds.data[i] = 1 <=> last.x.data[i] > 0

MulticlassRule ==
    /\ Rows >= 2 /\ Width >= 2
    /\ last.y_preds.shape = <<Rows>>
    /\ \A r \in 1..Rows :
          LET p == last.y_preds.data[r]
          IN  /\ p \in 0..(Width - 1)
              /\ \A c \in 0..(Width - 1) :
                    last.x.data[(r - 1) * Width + c + 1] <= last.x.data[(r - 1) * Width + p + 1]

DecodedByTag ==
    (IsClassifier /\ last.op \in StepOps) =>
        /\ last.bound => self.task \in Recognized
        /\ (last.bound /\ self.task = "binary") => BinaryRule
        /\ (last.bound /\ self.task = "multiclass") => MulticlassRule
        /\ (self.task = "binary") => last.bound

\* C7: the task tag is set at construction and no step or configuration
\* operation changes it; whichever of the four step operations ran, its
\* prediction follows the rule of that tag: binary thresholds every logit
\* to 0 or 1, multiclass takes a maximal column of every row.
C7_TagFixedAndDecides ==
    /\ []DecodedByTag
    /\ [][self.state = "built" => self'.task = self.task /\ self'.state = "built"]_vars

C7_Witness ==
    /\ IsClassifier /\ self.task = "binary" /\ Returned("predict") /\ optimizers.called
    /\ \E i, j \in 1..Len(last.y_preds.data) :
          last.y_preds.data[i] = 0 /\ last.y_preds.data[j] = 1

\* C8: every returned train, validate and test step of the classification
\* wrapper has logged its own split's accumulator and its loss; a predict
\* step computes no loss and logs nothing.
C8_StepsLogAccuracyAndLoss ==
    IsClassifier =>
        /\ \A op \in Splits : Returned(op) =>
              /\ \E e \in last.logged : e[2] = op \o "_accuracy"
              /\ \E e \in last.logged : e[2] = "loss"
        /\ last.op = "predict" => last.logged = {} /\ ~last.loss_computed

Built == chill.state = "built"

Delegations ==
    /\ Built => chill.trainer = 1
    /\ call.op = "train" =>
          /\ call.trainer = chill.trainer /\ call.model = chill.model
          /\ call.dataloaders = chill.train_dataloader
    /\ call.op = "test" =>
          /\ call.trainer = chill.trainer /\ call.model = "none"
          /\ call.dataloaders = chill.test_dataloader
    /\ call.op = "predict" =>
          /\ call.trainer = chill.trainer /\ call.model = "none"
          /\ call.dataloaders = call.given
          /\ call.ret.by = chill.trainer /\ call.ret.over = call.given
    /\ call.op = "validate" =>
          /\ call.trainer # chill.trainer /\ call.model = chill.model

ValidateIsFresh ==
    /\ Built => chill' = chill
    /\ (Built /\ history' # history /\ call'.op = "validate") =>
          /\ call'.trainer \notin 1..Len(trainers)
          /\ call'.trainer \in 1..Len(trainers')
          /\ trainers'[chill.trainer] = trainers[chill.trainer]

\* C9: train, test and predict delegate to the trainer created at
\* construction with the arguments the orchestrator holds (predict with the
\* given data source, returning the trainer's result); validate delegates
\* to a trainer created in that call, passing the wrapper, and leaves the
\* held trainer alone; no call changes the orchestrator's fields.
C9_DelegationTargets == []Delegations /\ [][ValidateIsFresh]_vars

C9_Witness ==
    /\ call.op = "validate" /\ Len(trainers) = 3
    /\ \E i \in 1..Len(history) : history[i] = "train"

TrainedBefore == \E i \in 1..(Len(history) - 1) : history[i] = "train"

\* C10: when test() or predict() reaches the held trainer, that trainer has
\* been given the wrapper if and only if train() was called earlier;
\* validate() calls do not count.
C10_ModelAttachedIffTrained ==
    call.op \in {"test", "predict"} => (call.attached <=> TrainedBefore)

C10_Witness ==
    /\ call.op = "predict" /\ ~call.attached
    /\ \E i \in 1..(Len(history) - 1) : history[i] = "validate"

====
